---- MODULE Spec2Model ----
(***************************************************************************)
(* thermostate: a model of                                                 *)
(*   (1) the continuous-integration workflow                               *)
(*       .github/workflows/pythonpackage.yml: which events start a run,    *)
(*       how the jobs of a run execute, and when a package is uploaded;    *)
(*   (2) the State class as the notebook                                   *)
(*       docs/air-standard-brayton-cycle-example.ipynb uses it: validation *)
(*       of the pair of defining properties, unit conversion, dispatch to  *)
(*       the property solver, and property reads.                          *)
(* The two parts share no state: SpecCI runs the workflow, SpecState the   *)
(* State objects. Of the workflow's jobs, build (the test matrix) and the  *)
(* two upload jobs are modelled; build-py38, notebooks, flake8 and docs    *)
(* run beside them in the same way as build and are left out.              *)
(***************************************************************************)
EXTENDS Integers, Sequences, FiniteSets, TLC

VARIABLES
    event,      \* the GitHub event delivered to the repository, or NoEvent
    run,        \* "idle" | "not_started" | "running": the workflow run of that event
    build,      \* result of each instance of the build matrix
    jobLog,     \* per upload job: the outcome of each step, <<>> before the job ran
    args,       \* per State slot: the keyword arguments of the constructor call
    outcome,    \* per State slot: how the constructor call ended
    st,         \* per State slot: the State object produced, or NoState
    solverCalls,\* per State slot: calls of the property solver made for it
    built,      \* per State slot: the State object as its constructor left it
    result      \* the value the last read or conversion returned, or NoResult

ciVars == <<event, run, build, jobLog>>
stateVars == <<args, outcome, st, solverCalls, built, result>>
vars == <<event, run, build, jobLog, args, outcome, st, solverCalls, built, result>>

(***************************************************************************)
(* Part 1: the workflow                                                    *)
(***************************************************************************)

\* Longest generated ref name (in characters).
MaxNameLen == 3

Master == <<"m", "a", "s", "t", "e", "r">>
Dev == <<"d", "e", "v">>
NameAlphabet == {"v", "/"}

RECURSIVE SeqsUpTo(_)
SeqsUpTo(n) ==
    IF n = 0 THEN {<<>>}
    ELSE LET shorter == SeqsUpTo(n - 1)
         IN  shorter \cup {Append(s, c) : s \in {t \in shorter : Len(t) = n - 1},
                                          c \in NameAlphabet}

\* git's rules for a ref name: not empty, no leading or trailing slash, no "//".
ValidName(s) ==
    /\ Len(s) > 0
    /\ s[1] # "/"
    /\ s[Len(s)] # "/"
    /\ \A i \in 1..(Len(s) - 1) : ~(s[i] = "/" /\ s[i + 1] = "/")

Names == {Master, Dev} \cup {s \in SeqsUpTo(MaxNameLen) : ValidName(s)}

\* on.push.tags, on.push.branches, on.pull_request.branches
PushTags == {<<"v", "*">>}
PushBranches == {Master}
PullRequestBranches == {Master}

\* A filter pattern of the workflow syntax against a name: "*" matches zero or
\* more characters other than "/", any other character matches itself.
RECURSIVE GlobMatch(_, _)
GlobMatch(pat, s) ==
    IF pat = <<>> THEN s = <<>>
    ELSE IF Head(pat) = "*"
         THEN \/ GlobMatch(Tail(pat), s)
              \/ (s # <<>> /\ Head(s) # "/" /\ GlobMatch(pat, Tail(s)))
         ELSE s # <<>> /\ Head(s) = Head(pat) /\ GlobMatch(Tail(pat), Tail(s))

NoEvent == [name |-> "none", kind |-> "none", ref |-> <<>>]

\* A push carries the pushed ref (a branch or a tag); a pull request carries
\* its base branch; the other events carry no ref.
PushEvents == [name : {"push"}, kind : {"heads", "tags"}, ref : Names]
PullRequestEvents == [name : {"pull_request"}, kind : {"base"}, ref : Names]
OtherEvents == [name : {"schedule", "release"}, kind : {"none"}, ref : {<<>>}]
Events == PushEvents \cup PullRequestEvents \cup OtherEvents

RefsPrefix == <<"r", "e", "f", "s", "/">>
Slash == <<"/">>
Heads == <<"h", "e", "a", "d", "s">>
Tags == <<"t", "a", "g", "s">>
RefsTags == <<"r", "e", "f", "s", "/", "t", "a", "g", "s">>

\* github.event.ref: refs/heads/<branch> or refs/tags/<tag> for a push, empty
\* for every other event.
EventRef(e) ==
    IF e.name # "push" THEN <<>>
    ELSE RefsPrefix \o (IF e.kind = "tags" THEN Tags ELSE Heads) \o Slash \o e.ref

StartsWith(s, prefix) ==
    /\ Len(s) >= Len(prefix)
    /\ SubSeq(s, 1, Len(prefix)) = prefix

\* Faulty variant of OnPush: every pushed tag starts a run.
OnPushNoTagFilter(e) ==
    /\ e.name = "push"
    /\ \/ e.kind = "tags"
       \/ e.kind = "heads" /\ \E pat \in PushBranches : GlobMatch(pat, e.ref)

\* on.push: a tag push runs when a tags pattern matches, a branch push when a
\* branches pattern matches.
OnPush(e) ==
    /\ e.name = "push"
    /\ \/ e.kind = "tags" /\ \E pat \in PushTags : GlobMatch(pat, e.ref)
       \/ e.kind = "heads" /\ \E pat \in PushBranches : GlobMatch(pat, e.ref)

\* on.pull_request: the base branch is matched against the branches patterns.
OnPullRequest(e) ==
    /\ e.name = "pull_request"
    /\ \E pat \in PullRequestBranches : GlobMatch(pat, e.ref)

Triggers(e) == OnPush(e) \/ OnPullRequest(e)

\* strategy.matrix of job build
PythonVersions == {"3.6", "3.7"}
OperatingSystems == {"ubuntu-latest", "macos-latest", "windows-latest"}
Matrix == PythonVersions \X OperatingSystems

\* Faulty variant of CondaUploadIf: the ref is not looked at.
CondaUploadIfPushOnly(e) == e.name = "push"

\* if: of step "Upload package to anaconda.org"
CondaUploadIf(e) == e.name = "push" /\ StartsWith(EventRef(e), RefsTags)

\* if: of step "Publish a Python distribution to PyPI"
PypiPublishIf(e) == e.name = "push" /\ StartsWith(EventRef(e), RefsTags)

CondaSteps == <<
    [name |-> "checkout", cond |-> "success"],
    [name |-> "setup-miniconda", cond |-> "success"],
    [name |-> "Append conda-forge channel to conda config", cond |-> "success"],
    [name |-> "Install conda-build dependencies", cond |-> "success"],
    [name |-> "Run conda build", cond |-> "success"],
    [name |-> "Upload package to anaconda.org", cond |-> "conda_upload"] >>

PypiSteps == <<
    [name |-> "checkout", cond |-> "success"],
    [name |-> "setup-python", cond |-> "success"],
    [name |-> "Install build dependencies", cond |-> "success"],
    [name |-> "Build the source and binary distributions", cond |-> "success"],
    [name |-> "Publish a Python distribution to PyPI", cond |-> "pypi_publish"] >>

JobSteps(j) == IF j = "conda-build-and-upload" THEN CondaSteps ELSE PypiSteps
UploadJobs == {"conda-build-and-upload", "pypi-build-and-upload"}

\* The jobs an upload job waits for (its needs: key). Neither upload job has one.
Needs(j) == {}

\* A step's condition. One without a status function is and-ed with success(),
\* so a step after a failed step is skipped.
StepIf(step, e) ==
    CASE step.cond = "conda_upload" -> CondaUploadIf(e)
      [] step.cond = "pypi_publish" -> PypiPublishIf(e)
      [] OTHER -> TRUE

\* The outcomes of a job's steps, run in order, when step failAt fails if it is
\* run (failAt = 0: no step fails).
RECURSIVE RunSteps(_, _, _, _)
RunSteps(steps, e, failAt, log) ==
    IF Len(log) = Len(steps) THEN log
    ELSE LET i == Len(log) + 1
             failed == \E k \in 1..Len(log) : log[k] = "failure"
             o == IF failed \/ ~StepIf(steps[i], e) THEN "skipped"
                  ELSE IF i = failAt THEN "failure"
                  ELSE "success"
         IN  RunSteps(steps, e, failAt, Append(log, o))

StepOutcome(j, name) ==
    IF jobLog[j] = <<>> THEN "pending"
    ELSE LET i == CHOOSE k \in 1..Len(JobSteps(j)) : JobSteps(j)[k].name = name
         IN  jobLog[j][i]

UploadStep(j) ==
    IF j = "conda-build-and-upload" THEN "Upload package to anaconda.org"
    ELSE "Publish a Python distribution to PyPI"
BuildStep(j) ==
    IF j = "conda-build-and-upload" THEN "Run conda build"
    ELSE "Build the source and binary distributions"

\* The upload step of job j was run (whatever its result); it uploaded a package.
UploadRan(j) == StepOutcome(j, UploadStep(j)) \in {"success", "failure"}
Uploaded(j) == StepOutcome(j, UploadStep(j)) = "success"

BuildSucceeded == \A m \in Matrix : build[m] = "success"

CIInit ==
    /\ event = NoEvent
    /\ run = "idle"
    /\ build = [m \in Matrix |-> "queued"]
    /\ jobLog = [j \in UploadJobs |-> <<>>]

\* An event arrives; the on: filter decides whether a run starts.
Deliver(e) ==
    /\ run = "idle"
    /\ event' = e
    /\ run' = IF Triggers(e) THEN "running" ELSE "not_started"
    /\ UNCHANGED <<build, jobLog>>
    /\ UNCHANGED stateVars

\* One instance of the build matrix runs to its end (fail-fast: false, so the
\* instances do not cancel one another).
RunBuild(m, ok) ==
    /\ run = "running"
    /\ build[m] = "queued"
    /\ build' = [build EXCEPT ![m] = IF ok THEN "success" ELSE "failure"]
    /\ UNCHANGED <<event, run, jobLog>>
    /\ UNCHANGED stateVars

\* An upload job runs to its end once the jobs it needs have succeeded.
RunUploadJob(j, failAt) ==
    /\ run = "running"
    /\ jobLog[j] = <<>>
    /\ ("build" \in Needs(j) => BuildSucceeded)
    /\ jobLog' = [jobLog EXCEPT ![j] = RunSteps(JobSteps(j), event, failAt, <<>>)]
    /\ UNCHANGED <<event, run, build>>
    /\ UNCHANGED stateVars

CINext ==
    \/ \E e \in Events : Deliver(e)
    \/ \E m \in Matrix, ok \in BOOLEAN : RunBuild(m, ok)
    \/ \E j \in UploadJobs : \E failAt \in 0..Len(JobSteps(j)) : RunUploadJob(j, failAt)

(***************************************************************************)
(* Part 2: the State class                                                 *)
(***************************************************************************)

\* The properties the notebook defines states with and reads back.
Props == {"T", "p", "h", "s"}

Units == {"K", "Pa", "kPa", "bar", "J/kg", "kJ/kg", "J/(kg*K)", "kJ/(kg*K)"}

\* Pint: the dimension of a unit and its size in SI base units.
UnitDim(u) ==
    CASE u = "K" -> "[temperature]"
      [] u \in {"Pa", "kPa", "bar"} -> "[pressure]"
      [] u \in {"J/kg", "kJ/kg"} -> "[energy]/[mass]"
      [] u \in {"J/(kg*K)", "kJ/(kg*K)"} -> "[energy]/[mass]/[temperature]"

UnitFactor(u) ==
    CASE u \in {"K", "Pa", "J/kg", "J/(kg*K)"} -> 1
      [] u \in {"kPa", "kJ/kg", "kJ/(kg*K)"} -> 1000
      [] u = "bar" -> 100000

Q_(m, u) == [mag |-> m, unit |-> u]
DimensionalityError == [mag |-> 0, unit |-> "DimensionalityError"]
IsQuantity(q) == q.unit \in Units

\* Pint's Quantity.to: a new quantity in unit u, an error when the dimensions differ.
To(q, u) ==
    IF UnitDim(q.unit) # UnitDim(u) THEN DimensionalityError
    ELSE Q_((q.mag * UnitFactor(q.unit)) \div UnitFactor(u), u)

\* Two quantities are equal when they are the same amount in SI base units.
SameQuantity(q1, q2) ==
    /\ IsQuantity(q1) /\ IsQuantity(q2)
    /\ UnitDim(q1.unit) = UnitDim(q2.unit)
    /\ q1.mag * UnitFactor(q1.unit) = q2.mag * UnitFactor(q2.unit)

PropDim(prop) ==
    CASE prop = "T" -> "[temperature]"
      [] prop = "p" -> "[pressure]"
      [] prop = "h" -> "[energy]/[mass]"
      [] prop = "s" -> "[energy]/[mass]/[temperature]"

\* Faulty variant of SIUnit: s carries the unit of h.
SIUnitEntropyAsEnthalpy(prop) ==
    CASE prop = "T" -> "K"
      [] prop = "p" -> "Pa"
      [] prop = "h" -> "J/kg"
      [] prop = "s" -> "J/kg"

\* The SI unit the solver takes and returns each property in.
SIUnit(prop) ==
    CASE prop = "T" -> "K"
      [] prop = "p" -> "Pa"
      [] prop = "h" -> "J/kg"
      [] prop = "s" -> "J/(kg*K)"

\* The property solver's substance: the states it can solve for, in SI units;
\* the table stands for the solver's range of validity, a value outside it for
\* one the solver raises on. An air-standard gas: h depends on T alone, s on T
\* and p.
SolverT == {300, 400}
SolverP == {100000, 200000}
Fluid ==
    {[T |-> t, p |-> pr, h |-> 1000 * t, s |-> 10 * t + 3000 - (pr \div 100)] :
        t \in SolverT, pr \in SolverP}

ValueError == [T |-> 0, p |-> 0, h |-> 0, s |-> 0]
NoState == [T |-> -1, p |-> -1, h |-> -1, s |-> -1]

\* Faulty variant of Update: the second value is ignored.
UpdateFirstOnly(a, va, b, vb) ==
    LET m == {f \in Fluid : f[a] = va}
    IN  IF m = {} THEN ValueError ELSE CHOOSE f \in m : TRUE

\* The solver's update(input pair, value1, value2): the state with these two
\* values, an error when it has none.
Update(a, va, b, vb) ==
    LET m == {f \in Fluid : f[a] = va /\ f[b] = vb}
    IN  IF Cardinality(m) = 1 THEN CHOOSE f \in m : TRUE ELSE ValueError

\* Two properties are independent when together they fix the state.
Independent(a, b) ==
    /\ a # b
    /\ \A f, g \in Fluid : (f[a] = g[a] /\ f[b] = g[b]) => f = g

\* The pairs of keyword arguments, in the order given, allowed to define a state.
AllowedPairs == {pair \in Props \X Props : Independent(pair[1], pair[2])}

\* The solver's input pairs take their two values in a fixed order.
Rank(prop) == CASE prop = "T" -> 1 [] prop = "p" -> 2 [] prop = "h" -> 3 [] prop = "s" -> 4

\* Faulty variant of Dispatch: the values are not reordered with their names.
DispatchNoSwap(a, va, b, vb) ==
    IF Rank(a) < Rank(b) THEN Update(a, va, b, vb) ELSE Update(b, va, a, vb)

\* Dispatch of a pair of keyword arguments to the solver's input pair.
Dispatch(a, va, b, vb) ==
    IF Rank(a) < Rank(b) THEN Update(a, va, b, vb) ELSE Update(b, vb, a, va)

NoArgs == <<>>

\* Faulty variant of SetProperties: only the two given properties are kept.
SetPropertiesPairOnly(f, a, b) ==
    [T |-> IF "T" \in {a, b} THEN f.T ELSE -1,
     p |-> IF "p" \in {a, b} THEN f.p ELSE -1,
     h |-> IF "h" \in {a, b} THEN f.h ELSE -1,
     s |-> IF "s" \in {a, b} THEN f.s ELSE -1]

\* The State keeps every property of the state the solver found.
SetProperties(f, a, b) == [T |-> f.T, p |-> f.p, h |-> f.h, s |-> f.s]

\* Faulty variant of StateInit: the pair is not validated.
StateInitUnchecked(kw) ==
    LET a == kw[1].prop
        b == kw[2].prop
        va == To(kw[1].q, SIUnit(a))
        vb == To(kw[2].q, SIUnit(b))
    IN  IF ~IsQuantity(va) \/ ~IsQuantity(vb)
        THEN [outcome |-> "DimensionalityError", state |-> NoState, calls |-> 0]
        ELSE LET f == Dispatch(a, va.mag, b, vb.mag)
             IN  IF f = ValueError
                 THEN [outcome |-> "ValueError", state |-> NoState, calls |-> 1]
                 ELSE [outcome |-> "ok", state |-> SetProperties(f, a, b), calls |-> 1]

\* State(substance, **kw): validate the pair, convert both values to SI,
\* dispatch to the solver, keep the state it returns.
StateInit(kw) ==
    LET a == kw[1].prop
        b == kw[2].prop
    IN  IF <<a, b>> \notin AllowedPairs
        THEN [outcome |-> "StateError", state |-> NoState, calls |-> 0]
        ELSE LET va == To(kw[1].q, SIUnit(a))
                 vb == To(kw[2].q, SIUnit(b))
             IN  IF ~IsQuantity(va) \/ ~IsQuantity(vb)
                 THEN [outcome |-> "DimensionalityError", state |-> NoState, calls |-> 0]
                 ELSE LET f == Dispatch(a, va.mag, b, vb.mag)
                      IN  IF f = ValueError
                          THEN [outcome |-> "ValueError", state |-> NoState, calls |-> 1]
                          ELSE [outcome |-> "ok", state |-> SetProperties(f, a, b), calls |-> 1]

\* Faulty variant of Getter: the read rescales the stored value.
GetterInPlace(s, prop) ==
    [ret |-> Q_(s[prop], SIUnit(prop)),
     self |-> [s EXCEPT ![prop] = s[prop] \div 1000]]

\* st.T, st.p, st.h, st.s: the stored value with its unit; the State is left as it is.
Getter(s, prop) == [ret |-> Q_(s[prop], SIUnit(prop)), self |-> s]

\* The State variables of the notebook's cell.
Slots == {"st_1", "st_2"}

\* The values a caller passes for each property: inside the solver's range
\* and outside it (500 K), in SI and in other units, and of a wrong dimension
\* (a pressure passed as h).
KwValues(prop) ==
    CASE prop = "T" -> {Q_(300, "K"), Q_(500, "K")}
      [] prop = "p" -> {Q_(1, "bar"), Q_(200000, "Pa")}
      [] prop = "h" -> {Q_(300, "kJ/kg"), Q_(1, "bar")}
      [] prop = "s" -> {Q_(5, "kJ/(kg*K)"), Q_(4000, "J/(kg*K)")}

KwargsOf(a, b) ==
    {<<[prop |-> a, q |-> x], [prop |-> b, q |-> y]>> : x \in KwValues(a), y \in KwValues(b)}

Calls == UNION {KwargsOf(a, b) : <<a, b>> \in {pr \in Props \X Props : pr[1] # pr[2]}}

NoResult == [slot |-> "none", prop |-> "none", q |-> DimensionalityError, to |-> "none"]

StateInitial ==
    /\ args = [x \in Slots |-> NoArgs]
    /\ outcome = [x \in Slots |-> "none"]
    /\ st = [x \in Slots |-> NoState]
    /\ solverCalls = [x \in Slots |-> 0]
    /\ built = [x \in Slots |-> NoState]
    /\ result = NoResult

\* x = State(substance, a=..., b=...)
Construct(x, kw) ==
    /\ args[x] = NoArgs
    /\ LET r == StateInit(kw)
       IN  /\ args' = [args EXCEPT ![x] = kw]
           /\ outcome' = [outcome EXCEPT ![x] = r.outcome]
           /\ st' = [st EXCEPT ![x] = r.state]
           /\ built' = [built EXCEPT ![x] = r.state]
           /\ solverCalls' = [solverCalls EXCEPT ![x] = r.calls]
    /\ UNCHANGED result
    /\ UNCHANGED ciVars

\* x.prop
Read(x, prop) ==
    /\ outcome[x] = "ok"
    /\ LET g == Getter(st[x], prop)
       IN  /\ result' = [slot |-> x, prop |-> prop, q |-> g.ret, to |-> "none"]
           /\ st' = [st EXCEPT ![x] = g.self]
    /\ UNCHANGED <<args, outcome, solverCalls, built>>
    /\ UNCHANGED ciVars

\* .to(u) on the value last read or converted; a conversion that fails raises
\* and returns no value.
Convert(u) ==
    /\ result # NoResult
    /\ IsQuantity(result.q)
    /\ LET q == To(result.q, u)
       IN  result' = [result EXCEPT !.q = q, !.to = IF IsQuantity(q) THEN "none" ELSE u]
    /\ UNCHANGED <<args, outcome, st, solverCalls, built>>
    /\ UNCHANGED ciVars

StateNext ==
    \/ \E x \in Slots, kw \in Calls : Construct(x, kw)
    \/ \E x \in Slots, prop \in Props : Read(x, prop)
    \/ \E u \in Units : Convert(u)

Init == CIInit /\ StateInitial

Next == CINext \/ StateNext

Spec == Init /\ [][Next]_vars

\* The workflow alone, the State objects untouched.
SpecCI == Init /\ [][CINext]_vars

\* The State objects alone, no workflow event delivered.
SpecState == Init /\ [][StateNext]_vars

(***************************************************************************)
(* Properties                                                              *)
(***************************************************************************)

IsTagPush(e) == e.name = "push" /\ e.kind = "tags"
\* A tag that looks like a release: a "v", then any characters but "/".
LooksLikeRelease(n) == Len(n) >= 1 /\ n[1] = "v" /\ \A i \in 1..Len(n) : n[i] # "/"
PairOf(kw) == <<kw[1].prop, kw[2].prop>>
Swapped(kw) == <<kw[2], kw[1]>>
\* The solver has a state whose property a is the quantity q.
HasValue(f, a, q) == SameQuantity(Q_(f[a], SIUnit(a)), q)
Solvable(kw) ==
    \E f \in Fluid : HasValue(f, kw[1].prop, kw[1].q) /\ HasValue(f, kw[2].prop, kw[2].q)
\* Both values are quantities of their property's dimension.
HasDimensions(kw) == \A i \in 1..2 : UnitDim(kw[i].q.unit) = PropDim(kw[i].prop)
FullyDefined(x) ==
    /\ outcome[x] = "ok"
    /\ \A prop \in Props :
        /\ IsQuantity(Getter(st[x], prop).ret)
        /\ \E f \in Fluid : \A pr \in Props : Getter(st[x], pr).ret.mag = f[pr]

C5_UploadOnlyOnTagPush ==
    \A j \in UploadJobs :
        /\ UploadRan(j) => IsTagPush(event)
        /\ (jobLog[j] # <<>> /\ ~IsTagPush(event)) =>
            /\ StepOutcome(j, UploadStep(j)) = "skipped"
            /\ \/ StepOutcome(j, BuildStep(j)) \in {"success", "failure"}
               \/ \E k \in 1..Len(jobLog[j]) :
                    /\ jobLog[j][k] = "failure"
                    /\ JobSteps(j)[k].name \notin {BuildStep(j), UploadStep(j)}

\* C5 witness: a run for a push to master in which both upload jobs built
\* their package and skipped the upload.
C5_Witness ==
    /\ event.name = "push" /\ event.kind = "heads" /\ event.ref = Master
    /\ \A j \in UploadJobs :
        /\ StepOutcome(j, BuildStep(j)) = "success"
        /\ StepOutcome(j, UploadStep(j)) = "skipped"

\* C6: a run starts exactly for a push of a tag that looks like a release, a
\* push to master, or a pull request whose base is master; so an upload step
\* only ever runs for a tag that looks like a release.
C6_RunStartsForThreeEvents ==
    /\ run # "idle" =>
        ((run = "running") <=>
            \/ IsTagPush(event) /\ LooksLikeRelease(event.ref)
            \/ event.name = "push" /\ event.kind = "heads" /\ event.ref = Master
            \/ event.name = "pull_request" /\ event.ref = Master)
    /\ \A j \in UploadJobs :
        UploadRan(j) => (IsTagPush(event) /\ LooksLikeRelease(event.ref))

\* C6 witness: the run for the push of a release tag uploaded to PyPI.
C6_Witness ==
    /\ run = "running"
    /\ IsTagPush(event)
    /\ Uploaded("pypi-build-and-upload")

C8_UploadOnlyAfterTests ==
    \A j \in UploadJobs : Uploaded(j) => BuildSucceeded

====
